---- MODULE Spec2Model ----
(***************************************************************************)
(* A model of etas/plots.py: the three plot routines (temporal_decay_plot, *)
(* productivity_plot, spatial_decay_plot) and the ETASFitVisualisation     *)
(* session that harmonises comparison parameter sets and calls them.       *)
(*                                                                         *)
(* Numbers.  Floating point values are modelled as exact rationals         *)
(* [n, d] extended the IEEE-754 way: d = 0 stands for NaN (n = 0) and for  *)
(* +inf / -inf (n = 1 / n = -1).  Magnitudes are integers in thousandths   *)
(* of a magnitude unit (4.0 is 4000).  Where the rounding of doubles       *)
(* decides a result (np.round on a tie, the length of np.arange, log10 of  *)
(* a power of 10) the model follows the doubles over a stated range of     *)
(* values and is undefined outside it.                                     *)
(*                                                                         *)
(* The 50 bin edges of np.logspace are powers of ten with fractional       *)
(* exponents, which no rational equals.  The model holds such a double by  *)
(* the expression that yields it: an edge and a time distance by the       *)
(* exponent of ten, a bin width by its two edges, a density by its count   *)
(* and width, a sum by its terms and a normalised value by its density and *)
(* the sum.  Results that doubles give exactly (0, 1, inf, NaN) are        *)
(* rationals.                                                              *)
(***************************************************************************)
EXTENDS Integers, Sequences, FiniteSets, TLC

VARIABLES
    args,       \* a call of one of the numeric routines: the routine and its arguments
    ret,        \* what that call computed
    metadata,   \* the caller's configuration mapping
    heap,       \* the parameter dicts of metadata["comparison_parameters"], by label
    sessions,   \* the ETASFitVisualisation objects constructed so far
    figs,       \* pyplot's open figures, the current figure last
    files,      \* the files written, by name
    last        \* the last call on a session and how it ended

kvars == <<args, ret>>

svars == <<metadata, heap, sessions, figs, files, last>>

vars == <<args, ret, metadata, heap, sessions, figs, files, last>>

-----------------------------------------------------------------------------
(* Bounds of the model *)

\* rows of an event-pair table
MaxRows == 2
\* events of a catalog
MaxEvents == 3
\* sessions constructed from one configuration mapping
MaxSessions == 2
\* figures left open at a time
MaxOpenFigures == 1

-----------------------------------------------------------------------------
(* Float arithmetic *)

Abs(x) == IF x < 0 THEN -x ELSE x

Sgn(x) == IF x < 0 THEN -1 ELSE IF x > 0 THEN 1 ELSE 0

RECURSIVE GCD(_, _)
GCD(a, b) == IF b = 0 THEN a ELSE GCD(b, a % b)

\* n/d in lowest terms, d >= 0; x/0 is +inf, -inf or NaN by the sign of x
Norm(n, d) ==
    IF d = 0 THEN [n |-> Sgn(n), d |-> 0]
    ELSE LET g == GCD(Abs(n), Abs(d))
             s == Sgn(d)
         IN  [n |-> (s * n) \div g, d |-> (s * d) \div g]

R(i) == [n |-> i, d |-> 1]

NaN == [n |-> 0, d |-> 0]

\* the value is held as a rational, not as an expression
IsExact(x) == "d" \in DOMAIN x

IsNaN(x) == IsExact(x) /\ x.d = 0 /\ x.n = 0

IsFinite(x) == x.d # 0

\* x + y, over the least common denominator
RAdd(x, y) ==
    IF IsFinite(x) /\ IsFinite(y)
    THEN LET g == GCD(x.d, y.d)
         IN  Norm(x.n * (y.d \div g) + y.n * (x.d \div g), (x.d \div g) * y.d)
    ELSE IF IsNaN(x) \/ IsNaN(y) THEN NaN
    ELSE IF IsFinite(x) THEN y
    ELSE IF IsFinite(y) THEN x
    ELSE IF x.n = y.n THEN x ELSE NaN

RNeg(x) == [n |-> -x.n, d |-> x.d]

\* x - y
RSub(x, y) == RAdd(x, RNeg(y))

\* x * y, cancelled crosswise before multiplying; 0 * inf is NaN
RMul(x, y) ==
    IF IsFinite(x) /\ IsFinite(y)
    THEN LET g == GCD(Abs(x.n), y.d)
             h == GCD(Abs(y.n), x.d)
         IN  [n |-> (x.n \div g) * (y.n \div h), d |-> (x.d \div h) * (y.d \div g)]
    ELSE IF IsNaN(x) \/ IsNaN(y) THEN NaN
    ELSE Norm(Sgn(x.n) * Sgn(y.n), 0)

\* x / y, numpy's true division: 0/0 is NaN, x/0 is inf, x/inf is 0
RDiv(x, y) ==
    LET s == IF y.n < 0 THEN -1 ELSE 1
    IN  IF IsFinite(x) /\ IsFinite(y) /\ y.n # 0
        THEN RMul(x, [n |-> s * y.d, d |-> s * y.n])
        ELSE Norm(s * Sgn(x.n) * Sgn(y.d), s * Sgn(x.d) * Sgn(y.n))

\* x < y and x <= y; every comparison with NaN is false
RLt(x, y) ==
    IF IsNaN(x) \/ IsNaN(y) THEN FALSE
    ELSE IF IsFinite(x) /\ IsFinite(y)
    THEN LET g == GCD(x.d, y.d)
         IN  x.n * (y.d \div g) < y.n * (x.d \div g)
    ELSE IF IsFinite(x) THEN y.n > 0
    ELSE IF IsFinite(y) THEN x.n < 0
    ELSE x.n < y.n

RLe(x, y) == ~IsNaN(x) /\ ~IsNaN(y) /\ ~RLt(y, x)

\* 10 ** x, held by its exponent, and NaN for a NaN exponent.  Exponents
\* that differ give doubles that differ, in the order of the exponents.
Pow10(x) ==
    CASE IsNaN(x) -> NaN
      [] IsFinite(x) -> [pow10 |-> x]

\* a < b and a <= b for two powers of ten; every comparison with NaN is false
PLt(a, b) == ~IsNaN(a) /\ ~IsNaN(b) /\ RLt(a.pow10, b.pow10)

PLe(a, b) == ~IsNaN(a) /\ ~IsNaN(b) /\ RLe(a.pow10, b.pow10)

\* b - a for two powers of ten: NaN if one is, 0 if they are equal, and
\* their difference otherwise
PSub(b, a) ==
    IF IsNaN(a) \/ IsNaN(b) THEN NaN
    ELSE IF a = b THEN R(0)
    ELSE [minus |-> <<b, a>>]

\* np.linspace(start, stop, num)[i], i = 0 .. num-1 (endpoint included)
Linspace(start, stop, num) ==
    [i \in 1..num |->
        IF i = num THEN stop
        ELSE RAdd(start, RMul(R(i - 1), RDiv(RSub(stop, start), R(num - 1))))]

\* the sum of s[lo] .. s[hi], halves first, and the same with NaN skipped
RECURSIVE SumOver(_, _, _)
SumOver(s, lo, hi) ==
    IF lo > hi THEN R(0)
    ELSE IF lo = hi THEN s[lo]
    ELSE RAdd(SumOver(s, lo, (lo + hi) \div 2), SumOver(s, (lo + hi) \div 2 + 1, hi))

RECURSIVE NanSumOver(_, _, _)
NanSumOver(s, lo, hi) ==
    IF lo > hi THEN R(0)
    ELSE IF lo = hi THEN (IF IsNaN(s[lo]) THEN R(0) ELSE s[lo])
    ELSE RAdd(NanSumOver(s, lo, (lo + hi) \div 2),
              NanSumOver(s, (lo + hi) \div 2 + 1, hi))

\* Python's sum(): NaN propagates
Sum(s) == SumOver(s, 1, Len(s))

\* np.nansum(): NaN is skipped, the sum of nothing is 0
NanSum(s) == NanSumOver(s, 1, Len(s))

\* a[1:] - a[:-1]
Diff(a) == [i \in 1..(Len(a) - 1) |-> RSub(a[i + 1], a[i])]

\* elementwise a / b
DivEach(a, b) == [i \in 1..Len(a) |-> RDiv(a[i], b[i])]

\* bins[1:] - bins[:-1] for edges that are powers of ten
Widths(bins) == [i \in 1..(Len(bins) - 1) |-> PSub(bins[i + 1], bins[i])]

\* c / w for a weighted count c and a bin width w: the rational where w is
\* one (0 or NaN), c where w leaves it as it is (0 / w is 0, NaN / w is
\* NaN, for a w above 0), and the quotient otherwise
PerWidth(c, w) ==
    IF IsExact(w) THEN RDiv(c, w)
    ELSE IF ~IsFinite(c) \/ c.n = 0 THEN c
    ELSE [count |-> c, width |-> w]

\* the sum of densities d, by Python's sum() or, skipping NaN, by
\* np.nansum: the rational where every term is one or the sum is inf or
\* NaN, and otherwise the sum of the terms that are not 0
Total(d, skip_nan) ==
    LET exact == SelectSeq(d, IsExact)
        terms == SelectSeq(d, LAMBDA x : ~IsExact(x))
        s == IF skip_nan THEN NanSum(exact) ELSE Sum(exact)
    IN  IF terms = <<>> \/ ~IsFinite(s) THEN s
        ELSE CASE s = R(0) -> [sum |-> terms, skip_nan |-> skip_nan]

\* x / total for a density x: x / NaN is NaN and x / inf is 0; for a total
\* of terms 0 / total is 0, NaN / total is NaN, the only term over the
\* total is x / x = 1, and any other is the quotient
Share(x, total) ==
    IF IsExact(total) THEN RDiv(IF IsExact(x) THEN x ELSE R(1), total)
    ELSE IF IsExact(x) THEN x
    ELSE IF total.sum = <<x>> THEN R(1)
    ELSE [share |-> x, of |-> total]

\* the weights Pij * zeta_plus_1 of a table's rows
Weights(Pmat) == [j \in 1..Len(Pmat) |-> RMul(Pmat[j].Pij, Pmat[j].zeta_plus_1)]

-----------------------------------------------------------------------------
(* np.histogram(a, bins = edges, weights = w) for an array of edges.       *)
(* numpy takes the cumulative weight of the samples below each edge (at or *)
(* below the last edge, which closes the last bin) and returns the         *)
(* differences.  below[j][k] says that sample j lies below edge k (at or   *)
(* below it for the last edge).                                            *)

\* a check that also rejects edges that do not compare, such as NaN
HistogramRaisesUnlessOrdered(bins) ==
    \E i \in 1..(Len(bins) - 1) : ~RLe(bins[i], bins[i + 1])

\* numpy raises ValueError: `bins` must increase monotonically
HistogramRaises(bins) ==
    \E i \in 1..(Len(bins) - 1) : RLt(bins[i + 1], bins[i])

RECURSIVE WeightBelow(_, _, _, _)
WeightBelow(below, w, k, j) ==
    IF j = 0 THEN R(0)
    ELSE RAdd(WeightBelow(below, w, k, j - 1),
              IF below[j][k] THEN w[j] ELSE R(0))

Histogram(below, w, nedges) ==
    LET cum_n == [k \in 1..nedges |-> WeightBelow(below, w, k, Len(w))]
    IN  Diff(cum_n)

\* samples and edges that are plain numbers
Below(a, bins) ==
    [j \in 1..Len(a) |->
        [k \in 1..Len(bins) |->
            IF k = Len(bins) THEN RLe(a[j], bins[k]) ELSE RLt(a[j], bins[k])]]

-----------------------------------------------------------------------------
(* temporal_decay_plot, lines 42-56: the empirical curve                   *)

\* np.logspace(-4, 4): 50 edges from 1e-4 to 1e4, their exponents evenly
\* spaced
TimeStart == -4

TimeStop == 4

\* the default num of np.logspace, here and in spatial_decay_plot
NumBinEdges == 50

time_bins ==
    LET e == Linspace(R(TimeStart), R(TimeStop), NumBinEdges)
    IN  [i \in 1..NumBinEdges |-> Pow10(e[i])]

time_bins_sizes == Widths(time_bins)

\* counts_scaled = counts / time_bins_sizes, normalised by Python's sum()
Normalise(counts, sizes) ==
    LET counts_scaled == [i \in 1..Len(counts) |-> PerWidth(counts[i], sizes[i])]
        total == Total(counts_scaled, FALSE)
    IN  [i \in 1..Len(counts) |-> Share(counts_scaled[i], total)]

\* the time distances below each edge of time_bins
TimeBelow(Pmat) ==
    [j \in 1..Len(Pmat) |->
        [k \in 1..NumBinEdges |->
            IF k = NumBinEdges THEN PLe(Pmat[j].time_distance, time_bins[k])
            ELSE PLt(Pmat[j].time_distance, time_bins[k])]]

TemporalCounts(Pmat) == Histogram(TimeBelow(Pmat), Weights(Pmat), NumBinEdges)

TemporalEmpirical(Pmat) == Normalise(TemporalCounts(Pmat), time_bins_sizes)

-----------------------------------------------------------------------------
(* spatial_decay_plot, lines 216-233: one magnitude of interest            *)

\* the magnitudes x from 0 to 10, in thousandths, that end in 5 and whose
\* double times 100 is off the tie, on the side of the odd hundredth:
\* 2.135 * 100 is 213.49999999999997, 0.545 * 100 is 54.50000000000001
Round2OffTies ==
    {545, 575, 1015, 1035, 1225, 1245, 1255, 1275, 2135, 2155, 2175, 2195,
     2305, 2325, 2345, 2365, 4015, 4025, 4065, 4105, 4395, 4435, 4475,
     4485, 4515, 4525, 4565, 4605, 4895, 4935, 4975, 4985, 5015, 5025,
     5065, 5105, 8005, 8075, 8085, 8155, 8345, 8415, 8425, 8495, 8505,
     8575, 8585, 8655, 8845, 8915, 8925, 8995, 9005, 9075, 9085, 9155,
     9345, 9415, 9425, 9495, 9505, 9575, 9585, 9655, 9845, 9915, 9925,
     9995}

\* np.round(x, k) of a magnitude from 0 to 10, in thousandths: np.rint of
\* x * 10 ** k, divided by 10 ** k.  It is the nearest multiple of step,
\* and for an x halfway between two the even one unless the product is off
\* the tie (no product of an x from 0 to 10 and 10 is).
RoundTo(x, step) ==
    LET q == x \div step
        r == x % step
        even == (q % 2 = 0) # (step = 10 /\ x \in Round2OffTies)
    IN  CASE x \in 0..10000 /\ step \in {10, 100} ->
            IF 2 * r < step THEN q * step
            ELSE IF 2 * r > step THEN (q + 1) * step
            ELSE IF even THEN q * step ELSE (q + 1) * step

Round1(x) == RoundTo(x, 100)

Round2(x) == RoundTo(x, 10)

\* Pmat[np.round(Pmat["source_magnitude"],1) == np.round(moi,1)]
Psubmat(Pmat, moi) ==
    SelectSeq(Pmat, LAMBDA row : Round1(row.source_magnitude) = Round1(moi))

RECURSIVE MaxLevel(_)
MaxLevel(s) ==
    IF Len(s) = 1 THEN Head(s).spatial_distance_squared
    ELSE LET m == MaxLevel(Tail(s))
         IN  IF Head(s).spatial_distance_squared > m
             THEN Head(s).spatial_distance_squared ELSE m

\* np.log(np.sqrt(np.max(Psubmat["spatial_distance_squared"]))).  A squared
\* distance is e ** (2 * l) km^2 and the model holds its level l, so this is
\* the largest level; the max of an empty column is NaN (pandas).
LogMaxDist(sub) == IF sub = <<>> THEN NaN ELSE R(MaxLevel(sub))

\* the exponents of np.logspace(-1, np.log(max_dist))
DistanceExponents(sub) == Linspace(R(-1), LogMaxDist(sub), NumBinEdges)

distance_bins(sub) ==
    LET e == DistanceExponents(sub) IN [i \in 1..NumBinEdges |-> Pow10(e[i])]

\* e ** (2 * l) < 10 ** x, and <=: 2 * l * log10(e) against x, with
\* 2 * log10(e) = 0.868589 (the two sides tie only at l = 0 = x)
LevelLt(l, x) == IsFinite(x) /\ 868589 * l * x.d < 1000000 * x.n

LevelLe(l, x) == IsFinite(x) /\ 868589 * l * x.d <= 1000000 * x.n

DistBelow(sub) ==
    LET e == DistanceExponents(sub)
    IN  [j \in 1..Len(sub) |->
            [k \in 1..NumBinEdges |->
                IF k = NumBinEdges
                THEN LevelLe(sub[j].spatial_distance_squared, e[k])
                ELSE LevelLt(sub[j].spatial_distance_squared, e[k])]]

\* dist_emp / distance_bins_sizes, normalised by np.nansum
NanNormalise(dist_emp, sizes) ==
    LET d == [i \in 1..Len(dist_emp) |-> PerWidth(dist_emp[i], sizes[i])]
        total == Total(d, TRUE)
    IN  [i \in 1..Len(dist_emp) |-> Share(d[i], total)]

SpatialRaises(Pmat, moi) == HistogramRaises(DistanceExponents(Psubmat(Pmat, moi)))

SpatialCounts(Pmat, moi) ==
    LET sub == Psubmat(Pmat, moi)
    IN  Histogram(DistBelow(sub), Weights(sub), NumBinEdges)

SpatialEmpirical(Pmat, moi) ==
    NanNormalise(SpatialCounts(Pmat, moi), Widths(distance_bins(Psubmat(Pmat, moi))))

-----------------------------------------------------------------------------
(* productivity_plot, lines 128-144                                        *)

RECURSIVE MinOf(_)
MinOf(s) == IF Len(s) = 1 THEN s[1]
            ELSE LET m == MinOf(Tail(s)) IN IF s[1] < m THEN s[1] ELSE m

RECURSIVE MaxOf(_)
MaxOf(s) == IF Len(s) = 1 THEN s[1]
            ELSE LET m == MaxOf(Tail(s)) IN IF s[1] > m THEN s[1] ELSE m

\* ceil((stop - start) / step) as IEEE-754 doubles give it, for
\* start = min - step / 2 and stop = max + step / 2 with min and max among
\* 3.0, 3.1 and 3.2 and a step of 0.1 or 0.2.  There a quotient that is
\* whole in the reals comes out just below the whole number for a step of
\* 0.1 (0.9999999999999964 for 3.05 - 2.95) and just above it for a step of
\* 0.2 (1.0000000000000009 for 3.1 - 2.9).  Other magnitudes round either
\* way and are left out.
ArangeLength(start, stop, step) ==
    LET q == (stop - start) \div step
    IN  CASE /\ step \in {100, 200}
             /\ start + step \div 2 \in {3000, 3100, 3200}
             /\ stop - step \div 2 \in {3000, 3100, 3200} ->
            IF stop <= start THEN 0
            ELSE IF (stop - start) % step # 0 THEN q + 1
            ELSE IF step = 200 THEN q + 1
            ELSE q

\* np.arange(start, stop, step): start + i * step for ArangeLength values
\* of i from 0
Arange(start, stop, step) ==
    [i \in 1..ArangeLength(start, stop, step) |-> start + (i - 1) * step]

magnitude_bins(catalog, delta_m) ==
    Arange(MinOf(catalog) - delta_m \div 2, MaxOf(catalog) + delta_m \div 2, delta_m)

Rs(s) == [i \in 1..Len(s) |-> R(s[i])]

ProductivityPlot(Pmat, catalog, delta_m) ==
    LET bins == Rs(magnitude_bins(catalog, delta_m))
        magnitudes == [i \in 1..(Len(bins) - 1) |->
                          RDiv(RAdd(bins[i + 1], bins[i]), R(2))]
        counts == Histogram(
                      Below([j \in 1..Len(Pmat) |-> R(Pmat[j].source_magnitude)], bins),
                      Weights(Pmat), Len(bins))
        how_many == Histogram(Below(Rs(catalog), bins),
                              [j \in 1..Len(catalog) |-> R(1)], Len(bins))
    IN  [magnitude_bins |-> bins,
         magnitudes |-> magnitudes,
         counts |-> counts,
         how_many |-> how_many,
         counts_scaled |-> DivEach(counts, how_many)]

-----------------------------------------------------------------------------
(* The numeric routines applied to bounded inputs.  args is the call (the  *)
(* routine and its arguments), ret what it computed.                       *)

SeqsUpTo(S, n) == UNION {[1..k -> S] : k \in 0..n}

PijValues == {R(0), Norm(1, 2), R(1)}

ZetaValues == {R(1), R(2)}

\* time distances in days: 1e-5 (below the first edge), 1e-4 (on it), a
\* day (in bin 25 of the 49), 1e4 (on the last edge), 1e5 (above it)
TimeValues == {Pow10(R(-5)), Pow10(R(-4)), Pow10(R(0)), Pow10(R(4)), Pow10(R(5))}

\* levels l of the squared distances e ** (2 * l): a largest level of -2
\* makes the bin edges decrease, one of -1 makes the edges all 0.1, one of 0
\* has them rise to 1 (and leaves level -2 below the first edge), one of 6
\* has them rise to 1e6, with 1 = e ** 0 the eighth edge
DistLevels == {-2, -1, 0, 6}

SourceMagnitudes == {3960, 5000}

MagnitudesOfInterest == {4000, 5000}

CatalogMagnitudes == {3000, 3100, 3200}

DeltaMs == {100, 200}

TemporalInputs ==
    {[op |-> "temporal_decay_plot", Pmat |-> t] :
        t \in SeqsUpTo([time_distance : TimeValues, Pij : PijValues,
                        zeta_plus_1 : ZetaValues], MaxRows)}

SpatialInputs ==
    {[op |-> "spatial_decay_plot", Pmat |-> t, moi |-> m] :
        t \in SeqsUpTo([source_magnitude : SourceMagnitudes,
                        spatial_distance_squared : DistLevels,
                        Pij : PijValues, zeta_plus_1 : ZetaValues], MaxRows),
        m \in MagnitudesOfInterest}

ProductivityInputs ==
    {[op |-> "productivity_plot", Pmat |-> t, catalog |-> c, delta_m |-> dm] :
        t \in SeqsUpTo([source_magnitude : CatalogMagnitudes, Pij : PijValues,
                        zeta_plus_1 : ZetaValues], MaxRows),
        c \in SeqsUpTo(CatalogMagnitudes, MaxEvents) \ {<<>>},
        dm \in DeltaMs}

NoRet == [done |-> FALSE]

TemporalCall ==
    /\ args.op = "temporal_decay_plot"
    /\ ~ret.done
    /\ ret' = [done |-> TRUE, raised |-> FALSE,
               counts_scaled |-> TemporalEmpirical(args.Pmat)]
    /\ UNCHANGED args

SpatialCall ==
    /\ args.op = "spatial_decay_plot"
    /\ ~ret.done
    /\ ret' = IF SpatialRaises(args.Pmat, args.moi)
              THEN [done |-> TRUE, raised |-> TRUE, counts_scaled |-> <<>>]
              ELSE [done |-> TRUE, raised |-> FALSE,
                    counts_scaled |-> SpatialEmpirical(args.Pmat, args.moi)]
    /\ UNCHANGED args

ProductivityCall ==
    /\ args.op = "productivity_plot"
    /\ ~ret.done
    /\ ret' = [done |-> TRUE, raised |-> FALSE,
               out |-> ProductivityPlot(args.Pmat, args.catalog, args.delta_m)]
    /\ UNCHANGED args

\* no session: the numeric routines are called on their own
NoSession ==
    /\ metadata = <<>>
    /\ heap = <<>>
    /\ sessions = <<>>
    /\ figs = <<>>
    /\ files = <<>>
    /\ last = <<>>

InitHistogram == args \in TemporalInputs \cup SpatialInputs /\ ret = NoRet /\ NoSession

NextHistogram == (TemporalCall \/ SpatialCall) /\ UNCHANGED svars

SpecHistogram == InitHistogram /\ [][NextHistogram]_vars

InitProductivity == args \in ProductivityInputs /\ ret = NoRet /\ NoSession

NextProductivity == ProductivityCall /\ UNCHANGED svars

SpecProductivity == InitProductivity /\ [][NextProductivity]_vars

-----------------------------------------------------------------------------
(* The files behind fn_catalog and fn_pij, and the curves of their tables. *)
(* The curves are the routines' results for the tables of the files, kept  *)
(* as constants so that they are computed once.                            *)

Row(t, l, m, p, z) ==
    [time_distance |-> t, spatial_distance_squared |-> l,
     source_magnitude |-> m, Pij |-> p, zeta_plus_1 |-> z]

ReadCsv(fn) ==
    CASE fn = "catalog.csv" -> <<3000, 3100, 3200>>
      [] fn = "pij_far.csv" ->
            <<Row(Pow10(R(-3)), 6, 3960, R(1), R(2)),
              Row(Pow10(R(4)), -1, 4000, Norm(1, 2), R(1))>>
      [] fn = "pij_near.csv" ->
            <<Row(Pow10(R(5)), -2, 4000, R(1), R(1))>>

PijTables == {ReadCsv("pij_far.csv"), ReadCsv("pij_near.csv")}

PrimaryDeltaM == 100

\* 5.0 has no event pair in either table; 4.0 and 4.002 are 4.0 to 2 decimals
MagnitudeLists == {<<4000>>, <<5000, 4000>>, <<4000, 4002>>}

\* lines 216-233 for one magnitude: whether np.histogram raises, and the
\* empirical curve if it does not
SpatialCurve(Pmat, moi) ==
    [raises |-> SpatialRaises(Pmat, moi),
     dist_emp_scaled |-> IF SpatialRaises(Pmat, moi) THEN <<>>
                         ELSE SpatialEmpirical(Pmat, moi)]

\* the curves as pairs <<arguments, result>>
TemporalCurves == {<<t, TemporalEmpirical(t)>> : t \in PijTables}

SpatialCurves ==
    {<<k, SpatialCurve(k[1], k[2])>> :
        k \in PijTables \X UNION {{l[i] : i \in DOMAIN l} : l \in MagnitudeLists}}

ProductivityCurves ==
    {<<k, ProductivityPlot(k[1], k[2], k[3])>> :
        k \in PijTables \X {ReadCsv("catalog.csv")} \X {PrimaryDeltaM}}

\* the kept results for the arguments k: one, or none
Kept(curves, k) == {p[2] : p \in {q \in curves : q[1] = k}}

-----------------------------------------------------------------------------
(* ETASFitVisualisation.__init__, lines 258-300                            *)

None == [none |-> TRUE]

Some(x) == [none |-> FALSE, v |-> x]

(* A log10-stored parameter is base / 100 + shift * log10(e) + ulp * 2^-60: *)
(* base is what the caller wrote, in hundredths; shift sums the exponents  *)
(* of the np.exp factors multiplied in; ulp is by how much                 *)
(* np.log10(np.power(10, x)) missed x, in units of 2^-60 (the doubles      *)
(* around 0.3 are 64 units apart).                                         *)
Log(base) == [base |-> base, shift |-> 0, ulp |-> 0]

\* np.power(10, x): the number whose log10 is x
Power10(x) == [lin |-> x]

\* the factor multiplied in twice
MulExpTwice(v, e) == [lin |-> [v.lin EXCEPT !.shift = @ + 2 * e]]

\* v * np.exp(e)
MulExp(v, e) == [lin |-> [v.lin EXCEPT !.shift = @ + e]]

\* IEEE-754 doubles: the values x = base / 100 + ulp * 2^-60, base from
\* -700 to 500, with log10(10 ** x) # x, as <<base, ulp, ulp of the result>>.
\* log10(10 ** -0.3) is -0.30000000000000004 and log10(10 ** -0.45) is
\* -0.44999999999999996; 0.28 and 0.3 move twice.
RoundTrips ==
    {<<-88, 0, -128>>, <<-87, 0, -128>>, <<-82, 0, -128>>, <<-58, 0, -128>>,
     <<-45, 0, 64>>, <<-43, 0, 64>>, <<-41, 0, -64>>, <<-30, 0, -64>>,
     <<-24, 0, -32>>, <<-23, 0, -64>>, <<-22, 0, 64>>, <<-21, 0, 32>>,
     <<-20, 0, 32>>, <<-19, 0, 32>>, <<-17, 0, -32>>, <<-16, 0, 64>>,
     <<-14, 0, -32>>, <<-12, 0, -16>>, <<-9, 0, 32>>, <<-8, 0, -16>>,
     <<-6, 0, 40>>, <<-5, 0, 24>>, <<-4, 0, 16>>, <<-3, 0, -16>>, <<-2,
     0, 24>>, <<-1, 0, -6>>, <<1, 0, -16>>, <<2, 0, 36>>, <<3, 0, -4>>,
     <<4, 0, 32>>, <<5, 0, -48>>, <<6, 0, 32>>, <<7, 0, -32>>, <<8, 0,
     16>>, <<9, 0, 32>>, <<10, 0, 16>>, <<11, 0, 32>>, <<12, 0, -48>>,
     <<13, 0, -32>>, <<14, 0, -64>>, <<15, 0, 32>>, <<16, 0, -32>>,
     <<19, 0, 32>>, <<20, 0, 32>>, <<24, 0, -32>>, <<25, 0, -32>>,
     <<26, 0, -64>>, <<28, 0, -64>>, <<28, -64, -128>>, <<29, 0, -64>>,
     <<30, 0, -64>>, <<30, -64, -128>>, <<31, 0, -64>>, <<34, 0, -64>>,
     <<36, 0, 64>>, <<41, 0, -64>>, <<44, 0, -64>>, <<45, 0, -64>>,
     <<46, 0, -64>>, <<86, 0, 128>>}

\* the ulp of log10(10 ** x), for a hundredth x from -7 to 5 and the values
\* the round trip makes of it
RoundTripUlp(x) ==
    LET moved == {t \in RoundTrips : t[1] = x.base /\ t[2] = x.ulp}
    IN  CASE /\ x.base \in -700..500
             /\ x.ulp = 0 \/ \E t \in RoundTrips : t[1] = x.base /\ t[3] = x.ulp ->
            IF moved = {} THEN x.ulp ELSE (CHOOSE t \in moved : TRUE)[3]

\* np.log10(v).  The rounding is followed for the unshifted values only.
Log10(v) ==
    IF v.lin.shift = 0 THEN [v.lin EXCEPT !.ulp = RoundTripUlp(v.lin)]
    ELSE v.lin

\* del_m, line 290
DelM(params, mc, delta_m) ==
    params.mc - params.delta_m \div 2 - (mc - delta_m \div 2)

\* the body of the loop over the comparison sets, lines 282-297: the dict of
\* the caller's mapping after the three assignments
Harmonise(params, mc, delta_m) ==
    LET mu == Power10(params.log10_mu)
        d == Power10(params.log10_d)
        k == Power10(params.log10_k0)
        gamma == params.gamma
        rho == params.rho
        beta == params.beta
        del_m == DelM(params, mc, delta_m)
        d2 == MulExp(d, del_m * gamma)
        k2 == MulExp(k, del_m * gamma * rho)
        mu2 == MulExp(mu, (-del_m) * beta)
    IN  [params EXCEPT !.log10_mu = Log10(mu2),
                       !.log10_d = Log10(d2),
                       !.log10_k0 = Log10(k2)]

\* metadata.get("comparison_parameters", {})
ComparisonLabels(md) ==
    IF md.comparison_parameters.none THEN {} ELSE md.comparison_parameters.v

\* how the constructor ends: pd.read_csv(None) raises ValueError,
\* None["a"] and None - float raise TypeError
ConstructOutcome(md) ==
    IF md.fn_catalog.none \/ md.fn_pij.none THEN "ValueError"
    ELSE IF md.parameters.none THEN "TypeError"
    ELSE IF ComparisonLabels(md) # {} /\ (md.mc.none \/ md.delta_m.none)
    THEN "TypeError"
    ELSE "ok"

NewSession(md) ==
    [catalog |-> ReadCsv(md.fn_catalog.v),
     Pij |-> ReadCsv(md.fn_pij.v),
     mc |-> md.mc,
     delta_m |-> md.delta_m,
     parameters |-> md.parameters.v,
     label |-> md.label,
     comparison_parameters |-> ComparisonLabels(md),
     magnitude_list |-> md.magnitude_list,
     store_path |-> md.store_path,
     a |-> md.parameters.v.a,
     gamma |-> md.parameters.v.gamma,
     c |-> Power10(md.parameters.v.log10_c),
     d |-> Power10(md.parameters.v.log10_d),
     k |-> Power10(md.parameters.v.log10_k0),
     mu |-> Power10(md.parameters.v.log10_mu),
     tau |-> Power10(md.parameters.v.log10_tau),
     omega |-> md.parameters.v.omega,
     rho |-> md.parameters.v.rho]

Returned(op, outcome) == [op |-> op, outcome |-> outcome, failed_at |-> 0]

Construct ==
    /\ Len(sessions) < MaxSessions
    /\ LET outcome == ConstructOutcome(metadata)
       IN  IF outcome = "ok"
           THEN /\ heap' = [l \in DOMAIN heap |->
                              IF l \in ComparisonLabels(metadata)
                              THEN Harmonise(heap[l], metadata.mc.v, metadata.delta_m.v)
                              ELSE heap[l]]
                /\ sessions' = Append(sessions, NewSession(metadata))
                /\ last' = Returned("__init__", "ok")
           ELSE /\ UNCHANGED <<heap, sessions>>
                /\ last' = Returned("__init__", outcome)
    /\ UNCHANGED <<metadata, figs, files, args, ret>>

-----------------------------------------------------------------------------
(* pyplot: the open figures (the current one last) and the files.  A       *)
(* figure, and a file saved from it, is the set of artists drawn on it: a  *)
(* curve by its plot, its label and its magnitude of interest (an analytic *)
(* curve's values, powers and exponentials of reals, are not computed),    *)
(* the empirical points with their values.                                 *)
(* A call runs on a world w: the figures and files, how the call has ended *)
(* so far, the index of the magnitude at which spatial_decay_plot raised,  *)
(* and the number of savefig calls made.  The savefig call number `fail`   *)
(* of the call raises OSError (0: none does).                              *)

Artist(plot, kind, label, mag, data) ==
    [plot |-> plot, kind |-> kind, label |-> label, mag |-> mag, data |-> data]

FileName(path, name, mag) == [path |-> path, name |-> name, mag |-> mag]

\* plt.figure()
Figure(w) == [w EXCEPT !.figs = Append(@, {})]

\* plt.plot, plt.scatter, ...: on the current figure, a new one if none is open
Draw(w, artists) ==
    [w EXCEPT !.figs = IF @ = <<>> THEN <<artists>>
                       ELSE [@ EXCEPT ![Len(@)] = @ \cup artists]]

\* plt.savefig(file_name)
Savefig(w, file_name, fail) ==
    IF w.saves + 1 = fail
    THEN [w EXCEPT !.saves = @ + 1, !.outcome = "OSError"]
    ELSE [w EXCEPT !.saves = @ + 1,
                   !.files = [f \in DOMAIN w.files \cup {file_name} |->
                                IF f = file_name THEN w.figs[Len(w.figs)]
                                ELSE w.files[f]]]

\* plt.close(): the current figure, if there is one
Close(w) ==
    [w EXCEPT !.figs = IF @ = <<>> THEN @ ELSE SubSeq(@, 1, Len(@) - 1)]

Raise(w, error) == [w EXCEPT !.outcome = error]

\* one analytic curve per comparison set
ComparisonLines(plot, mag, comparison_params) ==
    {Artist(plot, "plot", Some(l), mag, <<>>) : l \in comparison_params}

\* temporal_decay_plot, lines 42-92
temporal_decay_plot(w, Pmat, label, comparison_params, file_name, fail) ==
    LET kept == Kept(TemporalCurves, Pmat)
        counts_scaled == IF kept # {} THEN CHOOSE c \in kept : TRUE
                         ELSE TemporalEmpirical(Pmat)
        w1 == Figure(w)
        w2 == Draw(w1, {Artist("time", "plot", label, -1, <<>>),
                        Artist("time", "scatter", None, -1, counts_scaled),
                        Artist("time", "axvline", Some("tau"), -1, <<>>),
                        Artist("time", "axvline", Some("c"), -1, <<>>),
                        Artist("time", "text", Some("tau"), -1, <<>>),
                        Artist("time", "text", Some("c"), -1, <<>>)}
                       \cup ComparisonLines("time", -1, comparison_params))
        w3 == Savefig(w2, file_name, fail)
    IN  IF w3.outcome # "ok" THEN w3 ELSE Close(w3)

\* etas.inversion takes the magnitudes relative to mc: TypeError for None
ExpectedAftershocksRaises(mc) == mc.none

\* productivity_plot, lines 128-161; delta_m / 2 raises TypeError for None
productivity_plot(w, Pmat, catalog, mc, delta_m, label, comparison_params, file_name, fail) ==
    IF delta_m.none \/ ExpectedAftershocksRaises(mc) THEN Raise(w, "TypeError")
    ELSE
    LET kept == Kept(ProductivityCurves, <<Pmat, catalog, delta_m.v>>)
        out == IF kept # {} THEN CHOOSE c \in kept : TRUE
               ELSE ProductivityPlot(Pmat, catalog, delta_m.v)
        w1 == Figure(w)
        w2 == Draw(w1, {Artist("productivity", "plot", label, -1, <<>>),
                        Artist("productivity", "scatter", None, -1, out.counts_scaled)}
                       \cup ComparisonLines("productivity", -1, comparison_params))
        w3 == Savefig(w2, file_name, fail)
    IN  IF w3.outcome # "ok" THEN w3 ELSE Close(w3)

\* spatial_decay_plot, lines 214-254, from the magnitude at index i on
RECURSIVE spatial_decay_plot(_, _, _, _, _, _, _, _, _)
spatial_decay_plot(w, Pmat, magnitudes, mc, label, comparison_params, file_name, fail, i) ==
    IF i > Len(magnitudes) THEN w
    ELSE
    LET moi == magnitudes[i]
        kept == Kept(SpatialCurves, <<Pmat, moi>>)
        calc == IF kept # {} THEN CHOOSE c \in kept : TRUE
                ELSE SpatialCurve(Pmat, moi)
    IN  IF mc.none THEN [Raise(w, "TypeError") EXCEPT !.failed_at = i]
        ELSE IF calc.raises THEN [Raise(w, "ValueError") EXCEPT !.failed_at = i]
        ELSE
        LET w1 == Draw(w, {Artist("space", "plot", label, moi, <<>>),
                           Artist("space", "scatter", None, moi, calc.dist_emp_scaled)}
                          \cup ComparisonLines("space", moi, comparison_params))
            w2 == Savefig(w1, FileName(file_name.path, file_name.name, Round2(moi)), fail)
        IN  IF w2.outcome # "ok" THEN [w2 EXCEPT !.failed_at = i]
            ELSE spatial_decay_plot(Close(w2), Pmat, magnitudes, mc, label,
                                    comparison_params, file_name, fail, i + 1)

-----------------------------------------------------------------------------
(* The session's plot operations, lines 302-364.  The comparison curves    *)
(* are drawn from the dicts of self.comparison_parameters, one per label.  *)

\* os.path.join(self.store_path, fn_store) raises TypeError for None
time_kernel_plot(self, w, fail) ==
    IF self.store_path.none THEN Raise(w, "TypeError")
    ELSE temporal_decay_plot(w, self.Pij, self.label, self.comparison_parameters,
                             FileName(self.store_path.v, "time_kernel_fit.pdf", -1), fail)

productivity_law_plot(self, w, fail) ==
    IF self.store_path.none THEN Raise(w, "TypeError")
    ELSE productivity_plot(w, self.Pij, self.catalog, self.mc, self.delta_m,
                           self.label, self.comparison_parameters,
                           FileName(self.store_path.v, "productivity_law_fit.pdf", -1), fail)

\* for moi in None raises TypeError
space_kernel_plot(self, w, fail) ==
    IF self.store_path.none \/ self.magnitude_list.none THEN Raise(w, "TypeError")
    ELSE spatial_decay_plot(w, self.Pij, self.magnitude_list.v, self.mc, self.label,
                            self.comparison_parameters,
                            FileName(self.store_path.v, "space_kernel_fit.pdf", -1),
                            fail, 1)

World ==
    [figs |-> figs, files |-> files, outcome |-> "ok", failed_at |-> 0, saves |-> 0]

\* the savefig calls a plot operation of the session can make
Saves(self) == IF self.magnitude_list.none THEN 0 ELSE Len(self.magnitude_list.v)

Call(op, i, w) ==
    /\ figs' = w.figs
    /\ files' = w.files
    /\ last' = [op |-> op, outcome |-> w.outcome, failed_at |-> w.failed_at]
    /\ UNCHANGED <<metadata, heap, sessions, args, ret>>

\* a save fails only while fewer than MaxOpenFigures figures are left open
MayFail(fail) == fail # 0 => Len(figs) < MaxOpenFigures

\* each action runs one method of a session on the figures and files as
\* they are, and leaves them as the method left them
TimeKernelPlot ==
    \E i \in DOMAIN sessions, fail \in 0..1 :
        /\ MayFail(fail)
        /\ \E w \in {time_kernel_plot(sessions[i], World, fail)} :
              Call("time_kernel_plot", i, w)

ProductivityLawPlot ==
    \E i \in DOMAIN sessions, fail \in 0..1 :
        /\ MayFail(fail)
        /\ \E w \in {productivity_law_plot(sessions[i], World, fail)} :
              Call("productivity_law_plot", i, w)

SpaceKernelPlot ==
    \E i \in DOMAIN sessions :
        \E fail \in 0..Saves(sessions[i]) :
            /\ MayFail(fail)
            /\ \E w \in {space_kernel_plot(sessions[i], World, fail)} :
                  Call("space_kernel_plot", i, w)

\* all_plots, lines 360-363: the three methods one after the other, as far
\* as none raises
AllPlots ==
    \E i \in DOMAIN sessions :
        \E fail \in 0..(2 + Saves(sessions[i])) :
            /\ MayFail(fail)
            /\ \E w1 \in {time_kernel_plot(sessions[i], World, fail)} :
               \E w2 \in {IF w1.outcome # "ok" THEN w1
                          ELSE productivity_law_plot(sessions[i], w1, fail)} :
               \E w3 \in {IF w2.outcome # "ok" THEN w2
                          ELSE space_kernel_plot(sessions[i], w2, fail)} :
                  Call("all_plots", i, w3)

-----------------------------------------------------------------------------
(* The configurations a session is constructed from                        *)

Labels == {"A", "B"}

PrimaryMc == 3000

\* the fitted parameters of the primary region (log10 fields in hundredths,
\* the others in tenths)
PrimaryParameters ==
    [a |-> 18, gamma |-> 12, rho |-> 6, omega |-> -1, beta |-> 23,
     log10_c |-> Log(-250), log10_d |-> Log(-50), log10_k0 |-> Log(-200),
     log10_mu |-> Log(-600), log10_tau |-> Log(350)]

ParameterSet(mc, delta_m, log10_d, log10_k0, log10_mu) ==
    [mc |-> mc, delta_m |-> delta_m, a |-> 20, gamma |-> 10, rho |-> 5,
     omega |-> -2, beta |-> 20, log10_c |-> Log(-200), log10_tau |-> Log(400),
     log10_d |-> Log(log10_d), log10_k0 |-> Log(log10_k0),
     log10_mu |-> Log(log10_mu)]

\* a region with the primary's mc and delta_m, one with a higher mc, one with
\* a lower mc and wider magnitude bins
ComparisonSets ==
    {ParameterSet(PrimaryMc, PrimaryDeltaM, -30, -250, -600),
     ParameterSet(3100, 100, -50, -200, -650),
     ParameterSet(2500, 200, -100, -150, -500)}

Keys ==
    {"fn_catalog", "fn_pij", "mc", "delta_m", "parameters", "label",
     "comparison_parameters", "magnitude_list", "store_path"}

RequiredKeys == Keys \ {"label", "comparison_parameters"}

Metadata(fn_pij, comparison_parameters, magnitude_list) ==
    [fn_catalog |-> Some("catalog.csv"),
     fn_pij |-> Some(fn_pij),
     mc |-> Some(PrimaryMc),
     delta_m |-> Some(PrimaryDeltaM),
     parameters |-> Some(PrimaryParameters),
     label |-> Some("primary"),
     comparison_parameters |-> comparison_parameters,
     magnitude_list |-> Some(magnitude_list),
     store_path |-> Some("fits")]

\* the mapping without key k: metadata.get(k, None) is None
Without(md, k) == [md EXCEPT ![k] = None]

ComparisonParameters == {None} \cup {Some(L) : L \in {{}, {"A"}, Labels}}

\* the session starts from the mapping md and the dicts h of its comparison sets
InitSession(md, h) ==
    /\ metadata = md
    /\ heap = h
    /\ sessions = <<>>
    /\ figs = <<>>
    /\ files = <<>>
    /\ last = Returned("", "ok")
    /\ args = <<>>
    /\ ret = NoRet

\* complete mappings and mappings without one of the required keys, over
\* the tables and the magnitude lists
Init ==
    \E fn_pij \in {"pij_far.csv", "pij_near.csv"},
       cp \in {None, Some({"A"})},
       ml \in MagnitudeLists,
       k \in RequiredKeys \cup {"label"} :
        \/ /\ k = "label"
           /\ cp.none
           /\ InitSession(Metadata(fn_pij, cp, ml), <<>>)
        \/ /\ fn_pij = "pij_far.csv"
           /\ ml = <<4000>>
           /\ InitSession(Without(Metadata(fn_pij, cp, ml), k),
                          [l \in ComparisonLabels(Metadata(fn_pij, cp, ml)) |->
                              ParameterSet(3100, 100, -50, -200, -650)])

\* complete mappings over the comparison sets
InitComparison ==
    \E cp \in ComparisonParameters :
        \E h \in [ComparisonLabels(Metadata("pij_far.csv", cp, <<4000>>)) -> ComparisonSets] :
            InitSession(Metadata("pij_far.csv", cp, <<4000>>), h)

Next ==
    \/ Construct
    \/ TimeKernelPlot
    \/ ProductivityLawPlot
    \/ SpaceKernelPlot
    \/ AllPlots

Spec == Init /\ [][Next]_vars

SpecComparison == InitComparison /\ [][Next]_vars

-----------------------------------------------------------------------------
(* Properties of the numeric routines                                      *)

\* the rows the call's histogram is taken over
Sample ==
    IF args.op = "spatial_decay_plot" THEN Psubmat(args.Pmat, args.moi)
    ELSE args.Pmat

TotalWeight == Sum(Weights(Sample))

\* the values v sum to 1 over the non-NaN ones: exactly where they are
\* rationals, and up to the rounding of doubles where they are the quotients
\* x / total of every term x of one total
SumsToOne(v) ==
    LET shares == SelectSeq(v, LAMBDA x : ~IsExact(x))
    IN  IF shares = <<>> THEN NanSum(v) = R(1)
        ELSE /\ NanSum(SelectSeq(v, IsExact)) = R(0)
             /\ \A i \in 1..Len(shares) :
                   shares[i].of.sum = [k \in 1..Len(shares) |-> shares[k].share]

\* C6 as claimed: whenever the weights Pij * zeta_plus_1 of the input have a
\* nonzero sum, the routine returns normalised values that sum to 1 over the
\* non-NaN bins, also when samples lie outside the bin range.
C6_SumsToOneWheneverWeightNonzero ==
    (ret.done /\ TotalWeight # R(0)) =>
        (~ret.raised /\ SumsToOne(ret.counts_scaled))

\* the catalog events all have the magnitude of the first, and so have the
\* rows of the event-pair table
UniformCatalog ==
    /\ args.op = "productivity_plot"
    /\ \A j \in 1..Len(args.catalog) : args.catalog[j] = args.catalog[1]
    /\ \A j \in 1..Len(args.Pmat) : args.Pmat[j].source_magnitude = args.catalog[1]

\* magnitude m lies in bin i of the edges (the last bin is closed)
InBin(m, bins, i) ==
    /\ RLe(bins[i], R(m))
    /\ IF i + 1 = Len(bins) THEN RLe(R(m), bins[i + 1]) ELSE RLt(R(m), bins[i + 1])

\* C5 as claimed: for a catalog of N events all at magnitude M and event
\* pairs all at source magnitude M, a bin contains M and its average
\* productivity is the sum of Pij * zeta_plus_1 over the pairs, divided by N.
C5_UniformCatalogAverage ==
    (ret.done /\ UniformCatalog) =>
        \E i \in 1..Len(ret.out.counts_scaled) :
            /\ InBin(args.catalog[1], ret.out.magnitude_bins, i)
            /\ ret.out.counts_scaled[i] =
                   RDiv(Sum(Weights(args.Pmat)), R(Len(args.catalog)))

\* C8 as claimed: the last bin edge is max(magnitude) + delta_m / 2, every
\* catalog event lies in a bin and the per-bin catalog counts sum to the
\* number of catalog events.
C8_BinsCoverTheCatalog ==
    (ret.done /\ args.op = "productivity_plot") =>
        LET bins == ret.out.magnitude_bins
        IN  /\ bins[Len(bins)] = R(MaxOf(args.catalog) + args.delta_m \div 2)
            /\ \A j \in 1..Len(args.catalog) :
                  \E i \in 1..(Len(bins) - 1) : InBin(args.catalog[j], bins, i)
            /\ Sum(ret.out.how_many) = R(Len(args.catalog))

-----------------------------------------------------------------------------
(* Properties of the session and of its plot operations                    *)

\* C1 as claimed: every plot operation releases its figure before it
\* returns or raises, so no figure is open between two calls.
C1_NoFigureLeftOpen == figs = <<>>

\* a log10-stored value after one harmonisation of old by an exponent e
ShiftedBy(old, new, e) == new.base = old.base /\ new.shift = old.shift + e

\* C2: a session that is constructed shifts each of its comparison sets
\* once, log10_d by del_m * gamma, log10_k0 by del_m * gamma * rho and
\* log10_mu by -del_m * beta (as exponents of e), and changes nothing else;
\* every other step, the plot operations among them, leaves the stored
\* primary and comparison parameter sets as they are.
C2_HarmonisedOnceAtConstruction ==
    [][IF sessions' # sessions
       THEN LET self == sessions'[Len(sessions')]
            IN  /\ SubSeq(sessions', 1, Len(sessions)) = sessions
                /\ DOMAIN heap' = DOMAIN heap
                /\ \A l \in DOMAIN heap \ self.comparison_parameters :
                      heap'[l] = heap[l]
                /\ \A l \in self.comparison_parameters :
                      LET old == heap[l]
                          new == heap'[l]
                          del_m == old.mc - old.delta_m \div 2
                                       - (self.mc.v - self.delta_m.v \div 2)
                      IN  /\ ShiftedBy(old.log10_d, new.log10_d, del_m * old.gamma)
                          /\ ShiftedBy(old.log10_k0, new.log10_k0,
                                       del_m * old.gamma * old.rho)
                          /\ ShiftedBy(old.log10_mu, new.log10_mu,
                                       (-del_m) * old.beta)
                          /\ [new EXCEPT !.log10_d = 0, !.log10_k0 = 0, !.log10_mu = 0]
                               = [old EXCEPT !.log10_d = 0, !.log10_k0 = 0,
                                             !.log10_mu = 0]
       ELSE heap' = heap]_vars

\* a session with a shifted comparison set has drawn all its plots
C2_PlottedAfterHarmonisation ==
    /\ last.op = "all_plots"
    /\ last.outcome = "ok"
    /\ \E l \in DOMAIN heap :
          /\ l \in sessions[1].comparison_parameters
          /\ heap[l].log10_d.shift # 0
          /\ heap[l].log10_mu.shift # 0

\* the session has a value for each required key that it stores
HasAllFields(self) ==
    /\ ~self.mc.none
    /\ ~self.delta_m.none
    /\ ~self.magnitude_list.none
    /\ ~self.store_path.none

\* C3 as claimed: a mapping without a required key fails at construction,
\* so no session is constructed with a required field left None.
C3_NoSessionWithMissingField ==
    \A i \in DOMAIN sessions : HasAllFields(sessions[i])

\* the file of the magnitude at index k of the session's list
SpaceFile(self, k) ==
    FileName(self.store_path.v, "space_kernel_fit.pdf", Round2(self.magnitude_list.v[k]))

\* C4: in a space_kernel_plot call of a session with all its fields, a
\* magnitude whose subset of event pairs is empty raises nothing but a
\* failure to save, and once the loop is past it, its file holds its
\* empirical points, all NaN.
C4_EmptySubsetDoesNotStopTheLoop ==
    (last.op = "space_kernel_plot" /\ HasAllFields(sessions[1])) =>
        LET self == sessions[1]
        IN  \A k \in 1..Len(self.magnitude_list.v) :
                Psubmat(self.Pij, self.magnitude_list.v[k]) = <<>> =>
                    /\ last.failed_at = k => last.outcome = "OSError"
                    /\ (last.outcome = "ok" \/ last.failed_at > k) =>
                          /\ SpaceFile(self, k) \in DOMAIN files
                          /\ \E a \in files[SpaceFile(self, k)] :
                                /\ a.kind = "scatter"
                                /\ a.mag = self.magnitude_list.v[k]
                                /\ \A i \in 1..Len(a.data) : IsNaN(a.data[i])

\* the call went past a magnitude without event pairs and drew the next
C4_LoopWentOn ==
    /\ last.op = "space_kernel_plot"
    /\ last.outcome = "ok"
    /\ ~sessions[1].magnitude_list.none
    /\ \E k \in 1..(Len(sessions[1].magnitude_list.v) - 1) :
          /\ Psubmat(sessions[1].Pij, sessions[1].magnitude_list.v[k]) = <<>>
          /\ SpaceFile(sessions[1], k) \in DOMAIN files
          /\ SpaceFile(sessions[1], k + 1) \in DOMAIN files

\* C7 as claimed: a comparison set with the primary mc and delta_m keeps its
\* values exactly when a session is constructed.
C7_SameBinningKeepsValuesExactly ==
    [][sessions' # sessions =>
          LET self == sessions'[Len(sessions')]
          IN  \A l \in self.comparison_parameters :
                  (heap[l].mc = self.mc.v /\ heap[l].delta_m = self.delta_m.v) =>
                      heap'[l] = heap[l]]_vars

\* C9 as claimed: a completed space_kernel_plot call has written one file
\* per entry of the magnitude list, and each file holds the curves of its
\* own magnitude only.
C9_OneFilePerMagnitude ==
    (last.op = "space_kernel_plot" /\ last.outcome = "ok") =>
        LET space == {f \in DOMAIN files : f.name = "space_kernel_fit.pdf"}
        IN  /\ Cardinality(space) = Len(sessions[1].magnitude_list.v)
            /\ \A f \in space :
                  \A a \in files[f] : a.plot = "space" /\ Round2(a.mag) = f.mag

\* C10 as claimed: constructing a session leaves the caller's mapping, and
\* the dicts of the comparison sets in it, unchanged.
C10_ConstructionLeavesMappingUnchanged ==
    [][sessions' # sessions => (metadata' = metadata /\ heap' = heap)]_vars

====
